---- MODULE Spec2Model ----
(***************************************************************************)
(* TxGuard monitoring client: the snapshot poller TxListener               *)
(* (client/src/txListener.ts) behind the TxGuardClient facade              *)
(* (client/src/index.ts), polling the three ledger accounts of the txguard *)
(* program.                                                                *)
(*                                                                         *)
(* JavaScript runs every callback to completion, so one action is one      *)
(* macrotask or one promise continuation: an API call up to its first      *)
(* await, the continuation of pollAccounts after Promise.all, one firing   *)
(* of the interval timer.  Each of the three account fetches of a poll     *)
(* returns its account as it is at some instant between the call of        *)
(* pollAccounts and the settling of Promise.all, the three instants being  *)
(* independent: a poll in flight carries the ledger states of that         *)
(* interval (seen) and each fetch resolves to its account in one of them.  *)
(* An optional value (T | undefined) is a sequence of length 0 or 1.       *)
(***************************************************************************)
EXTENDS Integers, Sequences, FiniteSets, Bags, TLC

\* ------------------------------------------------------------------ bounds
MaxTx == 1          \* transactions on the ledger while polls overlap
MaxSeqTx == 2       \* transactions on the ledger while polls follow one another
MaxInFlight == 2    \* polls whose fetches are outstanding at the same time
MaxTimers == 2      \* interval timers alive at the same time
MaxErrors == 2      \* fetch failures the network produces
MaxListeners == 2   \* subscriptions registered through on*()
MaxBatch == 2       \* error logs in one classifyBatch call
MaxAnalyzedTx == 3  \* transactions in a snapshot given to analyzeFromStats
MaxMaps == 2        \* Map objects alive at the same time

\* --------------------------------------------------------------- taxonomy
NumFailureTypes == 6
NumTiers == 5
DefaultTier == 2
OtherFailure == 5
Tier0Threshold == 0
Tier1Threshold == 1000
Tier2Threshold == 5000
Tier3Threshold == 10000
Tier4Threshold == 50000

FailureNames ==
  <<"slippageExceeded", "insufficientLiquidity", "mevDetected",
    "droppedTx", "insufficientFunds", "other">>

\* the outcomes <<success, failureType, priorityFeeTier>> the ledger records
Outcomes == {<<TRUE, 0, 2>>, <<FALSE, 0, 1>>, <<FALSE, 1, 2>>}

Undefined == <<>>
Some(x) == <<x>>
IsDefined(o) == Len(o) = 1
Val(o) == o[1]

\* ------------------------------------------------------------ subscribers
Fwd == "fwd"                    \* the facade's forwarding closure
Subscribers == {"s1", "s2"}     \* callbacks of the application
Throwing == {"s1"}              \* callbacks that throw when invoked
SelfRemoving == {"once"}        \* callbacks that remove themselves when invoked
Adding == {"adder"}             \* callbacks that register s2 when invoked
Kinds == {"txRecordedListeners", "statsUpdateListeners", "errorListeners"}
FetchNames == {"registry", "failures", "priorityFees"}

VARIABLES
  ledger,               \* the three on-chain accounts
  isPolling,            \* TxListener.isPolling
  pollingTimer,         \* TxListener.pollingTimer holds a timer (TRUE) or undefined
  timers,               \* number of interval timers alive in the event loop; the
                        \* handle in pollingTimer is the one set last
  polls,                \* bag of pollAccounts() calls awaiting their fetches
  lastStats,            \* TxListener.lastStats
  errorCount,           \* TxListener.errorCount
  lastError,            \* TxListener.lastError
  listeners,            \* TxListener.{txRecorded,statsUpdate,error}Listeners
  clientListeners,      \* TxGuardClient.{txRecorded,statsUpdate,error}Listeners
  tierThresholds,       \* PriorityFeeAnalyzer.tierThresholds: a reference to a Map
  maps,                 \* the Map objects alive, by reference
  analysis,             \* the PriorityFeeAnalysis the application was returned last
  args,                 \* the error log(s) the application classifies next
  last                  \* what the step just taken did (observation only)

vars == <<ledger, isPolling, pollingTimer, timers, polls, lastStats,
          errorCount, lastError, listeners, clientListeners,
          tierThresholds, maps, analysis, args, last>>

analyzerVars == <<tierThresholds, maps, analysis>>
utilityVars == <<analyzerVars, args>>

listenerVars == <<listeners, clientListeners>>
pollerVars == <<isPolling, pollingTimer, timers, polls, lastStats,
                errorCount, lastError>>

\* ----------------------------------------------------------------- ledger
ZeroRegistry == [txCount |-> 0, successCount |-> 0, failureCount |-> 0]
ZeroCatalog == [slippageExceeded |-> 0, insufficientLiquidity |-> 0,
                mevDetected |-> 0, droppedTx |-> 0, insufficientFunds |-> 0,
                other |-> 0]
ZeroTiers == [t \in 0..(NumTiers - 1) |-> 0]

InitLedger == [registry |-> ZeroRegistry, failures |-> ZeroCatalog,
               priorityFees |-> [tiers |-> ZeroTiers]]

\* every poll in flight may read the accounts as they are from now on
Seeing(l) == BagOfAll(LAMBDA p : [p EXCEPT !.seen = @ \cup {l}], polls)

\* registerTxOutcome(success, failureType, priorityFeeTier)
RegisterTxOutcome(success, failureType, tier, maxTx) ==
  /\ ledger.registry.txCount < maxTx
  /\ ledger' =
       [registry |->
          [txCount |-> ledger.registry.txCount + 1,
           successCount |-> ledger.registry.successCount + (IF success THEN 1 ELSE 0),
           failureCount |-> ledger.registry.failureCount + (IF success THEN 0 ELSE 1)],
        failures |->
          IF success THEN ledger.failures
          ELSE [ledger.failures EXCEPT ![FailureNames[failureType + 1]] = @ + 1],
        priorityFees |->
          [tiers |-> [ledger.priorityFees.tiers EXCEPT ![tier] = @ + 1]]]
  /\ polls' = Seeing(ledger')
  /\ last' = [op |-> "other"]
  /\ UNCHANGED utilityVars
  /\ UNCHANGED <<isPolling, pollingTimer, timers, lastStats, errorCount,
                 lastError, listenerVars>>

\* initialize() on redeployed accounts: every counter returns to zero
Reinitialize ==
  /\ ledger.registry.txCount > 0
  /\ ledger' = InitLedger
  /\ polls' = Seeing(ledger')
  /\ last' = [op |-> "other"]
  /\ UNCHANGED utilityVars
  /\ UNCHANGED <<isPolling, pollingTimer, timers, lastStats, errorCount,
                 lastError, listenerVars>>

\* ------------------------------------------------------------- subscribers
\* what calling the application callback l does
Invoke(l) == IF l \in Throwing THEN "throws" ELSE "returns"

\* indexOf + splice(index, 1)
RemoveFirst(list, l) ==
  IF \E i \in 1..Len(list) : list[i] = l
  THEN LET i == CHOOSE i \in 1..Len(list) :
                  list[i] = l /\ \A j \in 1..(i - 1) : list[j] # l
       IN SubSeq(list, 1, i - 1) \o SubSeq(list, i + 1, Len(list))
  ELSE list

\* the list a callback is being notified from, once the callback l has run:
\* a callback may call remove*Listener or on* of the listener
Reenter(l, list) ==
  IF l \in SelfRemoving THEN RemoveFirst(list, l)
  ELSE IF l \in Adding /\ ~(\E i \in 1..Len(list) : list[i] = "s2")
       THEN Append(list, "s2")
       ELSE list

\* the callback invoked with no try/catch around it
ListenerNoTry(outcome) == outcome

\* try { listener(event) } catch (error) { console.error(...) }
ListenerTry(outcome) == IF outcome = "throws" THEN "caught" ELSE outcome

\* the same guard around each callback inside the facade's forwarding closures
ClientTry(outcome) == IF outcome = "throws" THEN "caught" ELSE outcome

\* forEach over the facade's list of one kind: the callbacks invoked, in order,
\* and whether an exception left the closure
RECURSIVE ClientForEach(_, _)
ClientForEach(list, i) ==
  IF i > Len(list) THEN [invoked |-> <<>>, threw |-> FALSE]
  ELSE IF ClientTry(Invoke(list[i])) = "throws"
       THEN [invoked |-> <<list[i]>>, threw |-> TRUE]
       ELSE LET rest == ClientForEach(list, i + 1)
            IN [invoked |-> <<list[i]>> \o rest.invoked, threw |-> rest.threw]

\* the closures setupEventForwarding registers on the listener
Forward(kind) == ClientForEach(clientListeners[kind], 1)

\* forEach over one of the listener's own lists; Fwd is the facade's closure.
\* Array.prototype.forEach walks the array itself: it visits the indexes below
\* the length the array had at the call (len) that the array still has when
\* their turn comes, and reads each element then
RECURSIVE ListenerForEach(_, _, _, _)
ListenerForEach(list, kind, i, len) ==
  IF i > len \/ i > Len(list)
  THEN [invoked |-> <<>>, client |-> <<>>, threw |-> FALSE, list |-> list]
  ELSE LET l == list[i]
           fwd == IF l = Fwd THEN Forward(kind)
                  ELSE [invoked |-> <<>>, threw |-> FALSE]
           outcome == IF l = Fwd
                      THEN (IF fwd.threw THEN "throws" ELSE "returns")
                      ELSE Invoke(l)
           after == Reenter(l, list)
       IN IF ListenerTry(outcome) = "throws"
          THEN [invoked |-> <<l>>, client |-> fwd.invoked, threw |-> TRUE,
                list |-> after]
          ELSE LET rest == ListenerForEach(after, kind, i + 1, len)
               IN [invoked |-> <<l>> \o rest.invoked,
                   client |-> fwd.invoked \o rest.client,
                   threw |-> rest.threw,
                   list |-> rest.list]

\* this.<kind>.forEach(...) on the lists as the run has them
Notify(run, kind) ==
  ListenerForEach(run.listeners[kind], kind, 1, Len(run.listeners[kind]))

\* ------------------------------------------------------------ pure helpers
\* (successCount / txCount) * 100 as the exact fraction num/den
calculateSuccessRate(registry) ==
  IF registry.txCount = 0 THEN [num |-> 0, den |-> 1]
  ELSE [num |-> registry.successCount * 100, den |-> registry.txCount]

\* a comparison that never finds two snapshots equal (the objects differ)
hasStatsChangedAlways(newStats, cur) == TRUE

\* a comparison that notices growth of the counters only
hasStatsChangedGrowthOnly(newStats, cur) ==
  IF ~IsDefined(cur) THEN TRUE
  ELSE \/ newStats.registry.txCount > Val(cur).registry.txCount
       \/ newStats.registry.successCount > Val(cur).registry.successCount
       \/ newStats.registry.failureCount > Val(cur).registry.failureCount

\* a comparison that reports no change while no snapshot is retained
hasStatsChangedNoFirst(newStats, cur) ==
  IF ~IsDefined(cur) THEN FALSE
  ELSE \/ newStats.registry.txCount # Val(cur).registry.txCount
       \/ newStats.registry.successCount # Val(cur).registry.successCount
       \/ newStats.registry.failureCount # Val(cur).registry.failureCount
       \/ newStats.failures # Val(cur).failures
       \/ newStats.priorityFees # Val(cur).priorityFees

hasStatsChanged(newStats, cur) ==
  IF ~IsDefined(cur) THEN TRUE
  ELSE \/ newStats.registry.txCount # Val(cur).registry.txCount
       \/ newStats.registry.successCount # Val(cur).registry.successCount
       \/ newStats.registry.failureCount # Val(cur).registry.failureCount
       \/ newStats.failures # Val(cur).failures
       \/ newStats.priorityFees # Val(cur).priorityFees

detectFailureTypeFromChanges(newStats, oldStats) ==
  LET failures == newStats.failures
      oldFailures == oldStats.failures
  IN IF failures.slippageExceeded > oldFailures.slippageExceeded THEN 0
     ELSE IF failures.insufficientLiquidity > oldFailures.insufficientLiquidity THEN 1
     ELSE IF failures.mevDetected > oldFailures.mevDetected THEN 2
     ELSE IF failures.droppedTx > oldFailures.droppedTx THEN 3
     ELSE IF failures.insufficientFunds > oldFailures.insufficientFunds THEN 4
     ELSE OtherFailure

detectPriorityTierFromChanges(newStats, oldStats) ==
  LET tiers == newStats.priorityFees.tiers
      oldTiers == oldStats.priorityFees.tiers
      increased == {i \in 0..(NumTiers - 1) : tiers[i] > oldTiers[i]}
  IN IF increased = {} THEN DefaultTier
     ELSE CHOOSE i \in increased : \A j \in increased : i <= j

\* the events detectNewTransactions builds, comparing newStats with the value
\* this.lastStats has when it runs
TxEvents(newStats, cur) ==
  IF ~IsDefined(cur) THEN <<>>
  ELSE LET txDiff == newStats.registry.txCount - Val(cur).registry.txCount
           successDiff == newStats.registry.successCount - Val(cur).registry.successCount
       IN [k \in 1..(IF txDiff > 0 THEN txDiff ELSE 0) |->
             LET i == k - 1
                 isSuccess == i < successDiff
             IN [signature |-> i,
                 success |-> isSuccess,
                 failureType |-> IF isSuccess THEN 0
                                 ELSE detectFailureTypeFromChanges(newStats, Val(cur)),
                 priorityFeeTier |-> detectPriorityTierFromChanges(newStats, Val(cur))]]

\* ----------------------------------------------------------------- poller
\* the poller fields one run of pollAccounts reads and writes, and the calls it
\* makes: invoked = the listener's own callbacks, client = the facade's
NoCalls == [invoked |-> <<>>, client |-> <<>>]

Run0 ==
  [lastStats |-> lastStats, errorCount |-> errorCount, lastError |-> lastError,
   stats |-> NoCalls, events |-> <<>>, tx |-> NoCalls, error |-> NoCalls,
   escaped |-> FALSE, listeners |-> listeners]

handleError(run, error) ==
  LET r == Notify(run, "errorListeners")
  IN [run EXCEPT !.errorCount = @ + 1,
                 !.lastError = Some(error),
                 !.error = [invoked |-> @.invoked \o r.invoked,
                            client |-> @.client \o r.client],
                 !.escaped = r.threw,
                 !.listeners.errorListeners = r.list]

\* the for loop of detectNewTransactions from event k on: each event goes to
\* every tx-recorded listener before the next event is built
RECURSIVE EmitTxEvents(_, _, _)
EmitTxEvents(run, events, k) ==
  IF k > Len(events) THEN run
  ELSE LET r == Notify(run, "txRecordedListeners")
           emitted == [run EXCEPT !.events = Append(@, events[k]),
                                  !.tx = [invoked |-> @.invoked \o r.invoked,
                                          client |-> @.client \o r.client],
                                  !.listeners.txRecordedListeners = r.list]
       IN IF r.threw THEN [emitted EXCEPT !.escaped = TRUE]
          ELSE EmitTxEvents(emitted, events, k + 1)

\* detectNewTransactions(newStats): this.lastStats is read when it runs
detectNewTransactions(run, newStats) ==
  EmitTxEvents(run, TxEvents(newStats, run.lastStats), 1)

\* the body of pollAccounts after Promise.all has resolved to newStats
pollAccountsResolved(run, newStats) ==
  IF ~hasStatsChanged(newStats, run.lastStats) THEN run
  ELSE LET s == Notify(run, "statsUpdateListeners")
           adopted == [run EXCEPT !.lastStats = Some(newStats),
                                  !.stats = [invoked |-> s.invoked,
                                             client |-> s.client],
                                  !.listeners.statsUpdateListeners = s.list]
       IN IF s.threw THEN handleError(adopted, "listener")
          ELSE LET d == detectNewTransactions(adopted, newStats)
               IN IF d.escaped THEN handleError(d, "listener") ELSE d

\* a catch block that forgets the retained snapshot
pollAccountsRejectedClears(run, error) ==
  handleError([run EXCEPT !.lastStats = Undefined], error)

\* a catch block that rethrows after handling the error
pollAccountsRejectedRethrows(run, error) ==
  [handleError(run, error) EXCEPT !.escaped = TRUE]

\* the body of pollAccounts after Promise.all has rejected
pollAccountsRejected(run, error) == handleError(run, error)

\* a pollAccounts() call that has issued its three fetches; stopped records
\* that stopPolling() ran while it was in flight (observation only)
NewPoll(kind) == [kind |-> kind, seen |-> {ledger}, stopped |-> FALSE]

fetchRegistryData(l) == l.registry
fetchCatalogData(l) == l.failures
fetchPriorityData(l) == l.priorityFees

\* startPolling() calls awaiting their first poll
Initials == CopiesIn("initial", BagOfAll(LAMBDA p : p.kind, polls))

\* newStats, the three fetches having read the ledger states lr, lc, lp
NewStats(lr, lc, lp) ==
  [registry |-> fetchRegistryData(lr), failures |-> fetchCatalogData(lc),
   priorityFees |-> fetchPriorityData(lp),
   successRate |-> calculateSuccessRate(fetchRegistryData(lr))]

\* ------------------------------------------------------------- operations
\* startPolling() without the isPolling guard
StartPollingUnguarded(maxInFlight) ==
  /\ BagCardinality(polls) < maxInFlight
  /\ timers + Initials < MaxTimers
  /\ isPolling' = TRUE
  /\ polls' = polls (+) SetToBag({NewPoll("initial")})
  /\ last' = [op |-> "startPolling", warned |-> FALSE]
  /\ UNCHANGED utilityVars
  /\ UNCHANGED <<ledger, pollingTimer, timers, lastStats, errorCount,
                 lastError, listenerVars>>

\* startPolling() up to its await
StartPolling(maxInFlight) ==
  /\ IF isPolling
     THEN /\ last' = [op |-> "startPolling", warned |-> TRUE]
          /\ UNCHANGED pollerVars
     ELSE /\ BagCardinality(polls) < maxInFlight
          /\ timers + Initials < MaxTimers
          /\ isPolling' = TRUE
          /\ polls' = polls (+) SetToBag({NewPoll("initial")})
          /\ last' = [op |-> "startPolling", warned |-> FALSE]
          /\ UNCHANGED <<pollingTimer, timers, lastStats, errorCount, lastError>>
  /\ UNCHANGED utilityVars
  /\ UNCHANGED <<ledger, listenerVars>>

\* what stopPolling() does to the poller's fields
stopPolling ==
  IF ~isPolling
  THEN UNCHANGED <<isPolling, pollingTimer, timers, polls>>
  ELSE /\ isPolling' = FALSE
       /\ pollingTimer' = FALSE
       /\ timers' = IF pollingTimer THEN timers - 1 ELSE timers
       /\ polls' = BagOfAll(LAMBDA p : [p EXCEPT !.stopped = TRUE], polls)

StopPolling ==
  /\ stopPolling
  /\ last' = [op |-> "stopPolling", wasPolling |-> isPolling]
  /\ UNCHANGED utilityVars
  /\ UNCHANGED <<ledger, lastStats, errorCount, lastError, listenerVars>>

\* forcePoll() up to its await
ForcePoll(maxInFlight) ==
  /\ BagCardinality(polls) < maxInFlight
  /\ polls' = polls (+) SetToBag({NewPoll("force")})
  /\ last' = [op |-> "forcePoll",
              after |-> IF last.op = "poll" /\ last.kind = "force" /\ last.quiet
                        THEN last.settled ELSE "none"]
  /\ UNCHANGED utilityVars
  /\ UNCHANGED <<ledger, isPolling, pollingTimer, timers, lastStats,
                 errorCount, lastError, listenerVars>>

\* an interval timer fires: its callback calls pollAccounts()
Tick(maxInFlight) ==
  /\ timers > 0
  /\ BagCardinality(polls) < maxInFlight
  /\ polls' = polls (+) SetToBag({NewPoll("interval")})
  /\ last' = [op |-> "tick"]
  /\ UNCHANGED utilityVars
  /\ UNCHANGED <<ledger, isPolling, pollingTimer, timers, lastStats,
                 errorCount, lastError, listenerVars>>

\* startPolling() that sets no interval when its first poll has failed
SettleNoIntervalAfterError(p, run, fetched) ==
  LET setTimer == p.kind = "initial" /\ IsDefined(fetched)
  IN /\ polls' = polls (-) SetToBag({p})
     /\ lastStats' = run.lastStats
     /\ errorCount' = run.errorCount
     /\ lastError' = run.lastError
     /\ pollingTimer' = (setTimer \/ pollingTimer)
     /\ timers' = IF setTimer THEN timers + 1 ELSE timers
     /\ last' = [op |-> "poll", kind |-> p.kind, stopped |-> p.stopped,
                 after |-> "none", quiet |-> (p.seen = {ledger}),
                 settled |-> IF IsDefined(fetched) THEN "resolved" ELSE "rejected",
                 prev |-> lastStats, errorsBefore |-> errorCount,
                 fetched |-> fetched, run |-> run, rejected |-> FALSE]
     /\ listeners' = run.listeners
     /\ UNCHANGED utilityVars
     /\ UNCHANGED <<ledger, isPolling, clientListeners>>

\* what follows pollAccounts() in its caller, and the new poller fields
Settle(p, run, fetched) ==
  \* interval callback: catch (error) { this.handleError(error) }
  \E after \in {IF p.kind = "interval" /\ run.escaped
                THEN handleError(run, "listener") ELSE run} :
  LET \* startPolling: setInterval(...) once the awaited poll has returned
      setTimer == p.kind = "initial" /\ ~run.escaped
  IN /\ polls' = polls (-) SetToBag({p})
     /\ lastStats' = after.lastStats
     /\ errorCount' = after.errorCount
     /\ lastError' = after.lastError
     /\ pollingTimer' = (setTimer \/ pollingTimer)
     /\ timers' = IF setTimer THEN timers + 1 ELSE timers
     /\ last' = [op |-> "poll", kind |-> p.kind, stopped |-> p.stopped,
                 after |-> IF last.op = "forcePoll" /\ p.kind = "force"
                              /\ BagCardinality(polls) = 1
                           THEN last.after ELSE "none",
                 quiet |-> (p.seen = {ledger}),
                 settled |-> IF IsDefined(fetched) THEN "resolved" ELSE "rejected",
                 prev |-> lastStats, errorsBefore |-> errorCount,
                 fetched |-> fetched, run |-> after,
                 rejected |-> (run.escaped /\ p.kind # "interval")]
     /\ listeners' = after.listeners
     /\ UNCHANGED utilityVars
     /\ UNCHANGED <<ledger, isPolling, clientListeners>>

\* the three fetches of p have resolved: Promise.all resolves
PollResolves(p, lr, lc, lp) ==
  /\ p \in DOMAIN polls
  /\ {lr, lc, lp} \subseteq p.seen
  /\ \E newStats \in {NewStats(lr, lc, lp)} :
       \E run \in {pollAccountsResolved(Run0, newStats)} :
         Settle(p, run, Some(newStats))

\* one fetch of p fails: Promise.all rejects with its error
PollRejects(p, part) ==
  /\ p \in DOMAIN polls
  /\ errorCount < MaxErrors
  /\ \E run \in {pollAccountsRejected(Run0, part)} :
       Settle(p, run, Undefined)

\* ------------------------------------------------------------ subscribing
RECURSIVE CountSubscribers(_)
CountSubscribers(list) ==
  IF list = <<>> THEN 0
  ELSE (IF Head(list) # Fwd THEN 1 ELSE 0) + CountSubscribers(Tail(list))

Registered(lists) ==
  CountSubscribers(lists.txRecordedListeners)
    + CountSubscribers(lists.statsUpdateListeners)
    + CountSubscribers(lists.errorListeners)

\* TxGuardClient.onTxRecorded / onStatsUpdate / onError
ClientOn(kind, l, maxListeners) ==
  /\ Registered(clientListeners) + Registered(listeners) < maxListeners
  /\ clientListeners' = [clientListeners EXCEPT ![kind] = Append(@, l)]
  /\ last' = [op |-> "other"]
  /\ UNCHANGED utilityVars
  /\ UNCHANGED <<ledger, pollerVars, listeners>>

\* TxListener.onTxRecorded / onStatsUpdate / onError
ListenerOn(kind, l, maxListeners) ==
  /\ Registered(clientListeners) + Registered(listeners) < maxListeners
  /\ listeners' = [listeners EXCEPT ![kind] = Append(@, l)]
  /\ last' = [op |-> "other"]
  /\ UNCHANGED utilityVars
  /\ UNCHANGED <<ledger, pollerVars, clientListeners>>

\* TxGuardClient.remove*Listener
ClientRemove(kind, l) ==
  /\ clientListeners' = [clientListeners EXCEPT ![kind] = RemoveFirst(@, l)]
  /\ last' = [op |-> "other"]
  /\ UNCHANGED utilityVars
  /\ UNCHANGED <<ledger, pollerVars, listeners>>

\* TxListener.remove*Listener
ListenerRemove(kind, l) ==
  /\ listeners' = [listeners EXCEPT ![kind] = RemoveFirst(@, l)]
  /\ last' = [op |-> "other"]
  /\ UNCHANGED utilityVars
  /\ UNCHANGED <<ledger, pollerVars, clientListeners>>

NoListeners == [k \in Kinds |-> <<>>]

\* TxGuardClient.destroy(): TxListener.destroy() and the facade's lists
Destroy ==
  /\ stopPolling
  /\ listeners' = NoListeners
  /\ clientListeners' = NoListeners
  /\ last' = [op |-> "destroy"]
  /\ UNCHANGED utilityVars
  /\ UNCHANGED <<ledger, lastStats, errorCount, lastError>>

\* ------------------------------------------------------ PriorityFeeAnalyzer
NoArgs == [fn |-> "none"]

\* initializeTierThresholds(): the Map the constructor fills, tier -> threshold
initializeTierThresholds ==
  [t \in 0..(NumTiers - 1) |->
     CASE t = 0 -> Tier0Threshold [] t = 1 -> Tier1Threshold
       [] t = 2 -> Tier2Threshold [] t = 3 -> Tier3Threshold
       [] t = 4 -> Tier4Threshold]

Tiers == 0..(NumTiers - 1)

\* the entries of the analyzer's Map, tier -> threshold; maps is the heap of
\* Map objects and tierThresholds the reference the analyzer holds
Thresholds == maps[tierThresholds]

\* Map.prototype.get
MapGet(entries, key) ==
  IF key \in DOMAIN entries THEN Some(entries[key]) ELSE Undefined

\* a >= b on numbers, false when b is undefined
AtLeast(a, b) == IsDefined(b) /\ a >= Val(b)

getTierForFee(feeInMicroLamports) ==
  IF AtLeast(feeInMicroLamports, MapGet(Thresholds, 4)) THEN 4
  ELSE IF AtLeast(feeInMicroLamports, MapGet(Thresholds, 3)) THEN 3
  ELSE IF AtLeast(feeInMicroLamports, MapGet(Thresholds, 2)) THEN 2
  ELSE IF AtLeast(feeInMicroLamports, MapGet(Thresholds, 1)) THEN 1
  ELSE 0

\* a recommendation below the threshold: Math.floor(threshold * 0.8)
getRecommendedFeeForTierBelow(tier) ==
  LET threshold == MapGet(Thresholds, tier)
  IN IF ~IsDefined(threshold) \/ Val(threshold) = 0 THEN 0
     ELSE IF tier = 0 THEN Val(threshold)
     ELSE (Val(threshold) * 8) \div 10

\* Math.floor(threshold * multiplier), multiplier 1 for tier 0 and 1.2 above
getRecommendedFeeForTier(tier) ==
  LET threshold == MapGet(Thresholds, tier)
  IN IF ~IsDefined(threshold) \/ Val(threshold) = 0 THEN 0
     ELSE IF tier = 0 THEN Val(threshold)
     ELSE (Val(threshold) * 12) \div 10

\* an analyzer that keeps the caller's Map instead of copying it
updateTierThresholdsAliased(newThresholds) ==
  /\ tierThresholds' = newThresholds
  /\ maps' = maps

\* this.tierThresholds = new Map(newThresholds): a new object takes the place
\* of the analyzer's former Map, which nothing else refers to
updateTierThresholds(newThresholds) ==
  /\ maps' = [maps EXCEPT ![tierThresholds] = maps[newThresholds]]
  /\ tierThresholds' = tierThresholds

\* return new Map(this.tierThresholds): the entries of the copy
getTierThresholds == Thresholds

\* a < b on the fractions num/den, den > 0
Less(a, b) == a.num * b.den < b.num * a.den
Percent(n) == [num |-> n, den |-> 1]

\* a suggestion that ignores how few transactions there are
suggestTierWithoutMinimum(recentStats) ==
  LET successRate == recentStats.successRate
  IN IF Less(successRate, Percent(50)) THEN 4
     ELSE IF Less(successRate, Percent(70)) THEN 3
     ELSE IF Less(successRate, Percent(85)) THEN 2
     ELSE IF Less(successRate, Percent(95)) THEN 1
     ELSE 0

suggestTierForNetworkConditions(recentStats) ==
  LET successRate == recentStats.successRate
      totalTxs == recentStats.registry.txCount
  IN IF totalTxs < 10 THEN 2
     ELSE IF Less(successRate, Percent(50)) THEN 4
     ELSE IF Less(successRate, Percent(70)) THEN 3
     ELSE IF Less(successRate, Percent(85)) THEN 2
     ELSE IF Less(successRate, Percent(95)) THEN 1
     ELSE 0

\* tierMultipliers [0.7, 0.8, 0.9, 0.95, 0.98] in hundredths, tier 0 first
tierMultipliers == <<70, 80, 90, 95, 98>>

\* baseSuccessRate * tierMultipliers[tier] * 100 as an exact fraction
estimateTierSuccessRate(tier, stats) ==
  IF tier >= 0 /\ tier < Len(tierMultipliers)
  THEN [num |-> stats.successRate.num * tierMultipliers[tier + 1],
        den |-> stats.successRate.den * 100]
  ELSE [num |-> stats.successRate.num * 100, den |-> stats.successRate.den * 100]

\* the loop of analyzeFromStats: a rate for every tier that was used, 0 for
\* the others; the five rates are fractions of one denominator
tierEffectiveness(stats) ==
  [i \in Tiers |->
     IF stats.priorityFees.tiers[i] > 0 THEN estimateTierSuccessRate(i, stats)
     ELSE [num |-> 0, den |-> stats.successRate.den * 100]]

\* the loop of findOptimalTier from tier t on, Object.entries in key order
RECURSIVE BestFrom(_, _, _, _)
BestFrom(effectiveness, t, bestTier, bestRate) ==
  IF t >= NumTiers THEN bestTier
  ELSE IF Less(bestRate, effectiveness[t])
       THEN BestFrom(effectiveness, t + 1, t, effectiveness[t])
       ELSE BestFrom(effectiveness, t + 1, bestTier, bestRate)

\* a search that starts from the lowest tier instead of the middle one
findOptimalTierFromLowest(effectiveness) ==
  BestFrom(effectiveness, 0, 0, [num |-> 0, den |-> 1])

findOptimalTier(effectiveness) ==
  BestFrom(effectiveness, 0, DefaultTier, [num |-> 0, den |-> 1])

\* sum over the tiers from t on of f[t]
RECURSIVE SumFrom(_, _)
SumFrom(f, t) == IF t >= NumTiers THEN 0 ELSE f[t] + SumFrom(f, t + 1)

RECURSIVE GCD(_, _)
GCD(a, b) == IF b = 0 THEN a ELSE GCD(b, a % b)

\* the greatest common divisor of the numbers f[t], 1 when all are 0
CommonDivisor(f) ==
  LET g == GCD(GCD(GCD(GCD(f[0], f[1]), f[2]), f[3]), f[4])
  IN IF g = 0 THEN 1 ELSE g

\* an average that divides whatever the total weight is: 0 / 0 is NaN
calculateAverageFeeUnguarded(effectiveness) ==
  LET threshold(t) == IF IsDefined(MapGet(Thresholds, t))
                      THEN Val(MapGet(Thresholds, t)) ELSE 0
      \* the weights in units of unit / (100 * the rates' denominator), unit
      \* their common divisor: the quotient of the sums does not depend on it
      unit == CommonDivisor([t \in Tiers |-> effectiveness[t].num])
      totalWeight == SumFrom([t \in Tiers |-> effectiveness[t].num \div unit], 0)
      totalWeightedFee ==
        SumFrom([t \in Tiers |-> threshold(t) * (effectiveness[t].num \div unit)], 0)
  IN IF totalWeight > 0 THEN [num |-> totalWeightedFee, den |-> totalWeight]
     ELSE [num |-> 0, den |-> 0]

\* totalWeight > 0 ? totalWeightedFee / totalWeight : 0, as an exact fraction
calculateAverageFee(effectiveness) ==
  LET threshold(t) == IF IsDefined(MapGet(Thresholds, t))
                      THEN Val(MapGet(Thresholds, t)) ELSE 0
      \* the weights in units of unit / (100 * the rates' denominator), unit
      \* their common divisor: the quotient of the sums does not depend on it
      unit == CommonDivisor([t \in Tiers |-> effectiveness[t].num])
      totalWeight == SumFrom([t \in Tiers |-> effectiveness[t].num \div unit], 0)
      totalWeightedFee ==
        SumFrom([t \in Tiers |-> threshold(t) * (effectiveness[t].num \div unit)], 0)
  IN IF totalWeight > 0 THEN [num |-> totalWeightedFee, den |-> totalWeight]
     ELSE [num |-> 0, den |-> 1]

analyzeFromStats(stats) ==
  [recommendedTier |-> findOptimalTier(tierEffectiveness(stats)),
   tierEffectiveness |-> tierEffectiveness(stats),
   averageFee |-> calculateAverageFee(tierEffectiveness(stats))]

\* ---------------------------------------------------------------- getters
\* a getter that reports a zero-filled snapshot while there is none
getCurrentStatsPlaceholder ==
  IF IsDefined(lastStats) THEN lastStats
  ELSE Some(NewStats(InitLedger, InitLedger, InitLedger))

\* TxListener.getCurrentStats(): this.lastStats as it is
getCurrentStats == lastStats

\* TxGuardClient.getStats()
getStats == getCurrentStats

\* ------------------------------------------------------- FailureClassifier
\* enum FailureType; OTHER = 5 is OtherFailure
SLIPPAGE_EXCEEDED == 0
INSUFFICIENT_LIQUIDITY == 1
MEV_DETECTED == 2
DROPPED_TX == 3
INSUFFICIENT_FUNDS == 4

FailureTypes == 0..(NumFailureTypes - 1)

\* Object.entries(ERROR_PATTERNS): string keys, in the order they are written
ERROR_PATTERNS ==
  <<
    [pattern |-> "slippage tolerance exceeded", type |-> SLIPPAGE_EXCEEDED],
    [pattern |-> "slippage exceeded", type |-> SLIPPAGE_EXCEEDED],
    [pattern |-> "price impact too high", type |-> SLIPPAGE_EXCEEDED],
    [pattern |-> "minimum amount out", type |-> SLIPPAGE_EXCEEDED],
    [pattern |-> "amount out below minimum", type |-> SLIPPAGE_EXCEEDED],
    [pattern |-> "insufficient liquidity", type |-> INSUFFICIENT_LIQUIDITY],
    [pattern |-> "liquidity not available", type |-> INSUFFICIENT_LIQUIDITY],
    [pattern |-> "pool not found", type |-> INSUFFICIENT_LIQUIDITY],
    [pattern |-> "reserve not found", type |-> INSUFFICIENT_LIQUIDITY],
    [pattern |-> "no liquidity", type |-> INSUFFICIENT_LIQUIDITY],
    [pattern |-> "mev detected", type |-> MEV_DETECTED],
    [pattern |-> "sandwich attack", type |-> MEV_DETECTED],
    [pattern |-> "frontrun detected", type |-> MEV_DETECTED],
    [pattern |-> "arbitrage detected", type |-> MEV_DETECTED],
    [pattern |-> "price manipulation", type |-> MEV_DETECTED],
    [pattern |-> "account not found", type |-> DROPPED_TX],
    [pattern |-> "blockhash not found", type |-> DROPPED_TX],
    [pattern |-> "blockhash too old", type |-> DROPPED_TX],
    [pattern |-> "transaction expired", type |-> DROPPED_TX],
    [pattern |-> "dropped transaction", type |-> DROPPED_TX],
    [pattern |-> "transaction not found", type |-> DROPPED_TX],
    [pattern |-> "insufficient funds", type |-> INSUFFICIENT_FUNDS],
    [pattern |-> "insufficient lamports", type |-> INSUFFICIENT_FUNDS],
    [pattern |-> "insufficient sol", type |-> INSUFFICIENT_FUNDS],
    [pattern |-> "insufficient balance", type |-> INSUFFICIENT_FUNDS],
    [pattern |-> "not enough funds", type |-> INSUFFICIENT_FUNDS],
    [pattern |-> "insufficient token balance", type |-> INSUFFICIENT_FUNDS],
    [pattern |-> "insufficientfundsforrent", type |-> INSUFFICIENT_FUNDS],
    [pattern |-> "exceeded compute unit limit", type |-> INSUFFICIENT_FUNDS],
    [pattern |-> "compute budget exceeded", type |-> INSUFFICIENT_FUNDS],
    [pattern |-> "program failed to complete", type |-> INSUFFICIENT_FUNDS],
    [pattern |-> "account already exists", type |-> INSUFFICIENT_FUNDS],
    [pattern |-> "account does not exist", type |-> DROPPED_TX],
    [pattern |-> "invalid account", type |-> DROPPED_TX],
    [pattern |-> "program error", type |-> OtherFailure],
    [pattern |-> "instruction error", type |-> OtherFailure],
    [pattern |-> "custom program error", type |-> OtherFailure],
    [pattern |-> "unknown error", type |-> OtherFailure]
  >>

\* JavaScript values passed to classify, every one a tuple
\* <<kind, text, number, boolean>>
Null == <<"null", "", 0, FALSE>>
UndefinedValue == <<"undefined", "", 0, FALSE>>
Str(s) == <<"string", s, 0, FALSE>>
Num(n) == <<"number", "", n, FALSE>>
Bool(b) == <<"boolean", "", 0, b>>
Object == <<"object", "", 0, FALSE>>
KindOf(v) == v[1]
TextOf(v) == v[2]

\* ToBoolean: what !errorLog and errorLog || ... test
Truthy(v) ==
  CASE KindOf(v) = "null" -> FALSE
    [] KindOf(v) = "undefined" -> FALSE
    [] KindOf(v) = "string" -> TextOf(v) # ""
    [] KindOf(v) = "number" -> v[3] # 0
    [] KindOf(v) = "boolean" -> v[4]
    [] OTHER -> TRUE

UpperCase == "ABCDEFGHIJKLMNOPQRSTUVWXYZ"
LowerCase == "abcdefghijklmnopqrstuvwxyz"
CharAt(s, i) == SubSeq(s, i, i)

\* a lower-casing that leaves the text as it is
toLowerCaseNone(s) == s

\* String.prototype.toLowerCase on ASCII text
RECURSIVE toLowerCase(_)
toLowerCase(s) ==
  IF s = "" THEN ""
  ELSE LET c == CharAt(s, 1)
           lower == IF \E k \in 1..Len(UpperCase) : CharAt(UpperCase, k) = c
                    THEN CharAt(LowerCase,
                                CHOOSE k \in 1..Len(UpperCase) : CharAt(UpperCase, k) = c)
                    ELSE c
       IN lower \o toLowerCase(SubSeq(s, 2, Len(s)))

\* String.prototype.includes / startsWith / endsWith
includes(text, pattern) ==
  \E i \in 0..(Len(text) - Len(pattern)) :
    SubSeq(text, i + 1, i + Len(pattern)) = pattern
startsWith(text, pattern) ==
  Len(pattern) <= Len(text) /\ SubSeq(text, 1, Len(pattern)) = pattern
endsWith(text, pattern) ==
  /\ Len(pattern) <= Len(text)
  /\ SubSeq(text, Len(text) - Len(pattern) + 1, Len(text)) = pattern

keyWords == <<"insufficient", "slippage", "liquidity", "funds", "dropped", "mev">>

\* a score that does not look for key words in the pattern
calculateConfidenceNoKeyWords(pattern, errorText) ==
  IF errorText = pattern THEN 10
  ELSE IF startsWith(errorText, pattern) THEN 9
  ELSE IF endsWith(errorText, pattern) THEN 8
  ELSE 6

\* confidences are kept in tenths: 10 is 1.0, 1 is 0.1
calculateConfidence(pattern, errorText) ==
  IF errorText = pattern THEN 10
  ELSE IF startsWith(errorText, pattern) THEN 9
  ELSE IF endsWith(errorText, pattern) THEN 8
  ELSE IF \E k \in 1..Len(keyWords) : includes(pattern, keyWords[k]) THEN 7
  ELSE 6

\* the keyword checks made from the last to the first
findPartialMatchesReversed(errorText) ==
  LET match(found, type) ==
        IF found THEN <<[type |-> type, confidence |-> 5]>> ELSE <<>>
  IN match(includes(errorText, "insufficient") \/ includes(errorText, "funds")
             \/ includes(errorText, "balance"),
           INSUFFICIENT_FUNDS)
     \o match(includes(errorText, "not found") \/ includes(errorText, "expired")
                \/ includes(errorText, "old"),
              DROPPED_TX)
     \o match(includes(errorText, "mev") \/ includes(errorText, "sandwich")
                \/ includes(errorText, "frontrun"),
              MEV_DETECTED)
     \o match(includes(errorText, "liquidity") \/ includes(errorText, "pool"),
              INSUFFICIENT_LIQUIDITY)
     \o match(includes(errorText, "slippage") \/ includes(errorText, "price"),
              SLIPPAGE_EXCEEDED)

findPartialMatches(errorText) ==
  LET match(found, type) ==
        IF found THEN <<[type |-> type, confidence |-> 5]>> ELSE <<>>
  IN match(includes(errorText, "slippage") \/ includes(errorText, "price"),
           SLIPPAGE_EXCEEDED)
     \o match(includes(errorText, "liquidity") \/ includes(errorText, "pool"),
              INSUFFICIENT_LIQUIDITY)
     \o match(includes(errorText, "mev") \/ includes(errorText, "sandwich")
                \/ includes(errorText, "frontrun"),
              MEV_DETECTED)
     \o match(includes(errorText, "not found") \/ includes(errorText, "expired")
                \/ includes(errorText, "old"),
              DROPPED_TX)
     \o match(includes(errorText, "insufficient") \/ includes(errorText, "funds")
                \/ includes(errorText, "balance"),
              INSUFFICIENT_FUNDS)

\* a guard that answers absent input with the confidence of an unmatched text
classifyAbsentUnmatched(errorLog) ==
  [type |-> OtherFailure, confidence |-> 1,
   originalError |-> IF Truthy(errorLog) THEN errorLog ELSE Str("Empty error")]

\* classify: the return under if (!errorLog || typeof errorLog !== 'string')
classifyAbsent(errorLog) ==
  [type |-> OtherFailure, confidence |-> 0,
   originalError |-> IF Truthy(errorLog) THEN errorLog ELSE Str("Empty error")]

\* classify on a non-empty string
classifyString(errorLog) ==
  LET lowerError == toLowerCase(TextOf(errorLog))
      matching == {i \in 1..Len(ERROR_PATTERNS) :
                     includes(lowerError, ERROR_PATTERNS[i].pattern)}
      partialMatches == findPartialMatches(lowerError)
  IN IF matching # {}
     THEN LET first == CHOOSE i \in matching : \A j \in matching : i <= j
          IN [type |-> ERROR_PATTERNS[first].type,
              confidence |-> calculateConfidence(ERROR_PATTERNS[first].pattern,
                                                 lowerError),
              originalError |-> errorLog]
     ELSE IF Len(partialMatches) > 0
     THEN [type |-> partialMatches[1].type,
           confidence |-> partialMatches[1].confidence,
           originalError |-> errorLog]
     ELSE [type |-> OtherFailure, confidence |-> 1, originalError |-> errorLog]

classify(errorLog) ==
  IF ~Truthy(errorLog) \/ KindOf(errorLog) # "string"
  THEN classifyAbsent(errorLog)
  ELSE classifyString(errorLog)

\* a batch that loses its last element
classifyBatchShort(errorLogs) ==
  [i \in 1..(Len(errorLogs) - 1) |-> classify(errorLogs[i])]

\* errorLogs.map(error => this.classify(error))
classifyBatch(errorLogs) == [i \in 1..Len(errorLogs) |-> classify(errorLogs[i])]

\* forEach(classification => stats[classification.type]++) from entry i on
RECURSIVE CountTypes(_, _, _)
CountTypes(stats, classifications, i) ==
  IF i > Len(classifications) THEN stats
  ELSE CountTypes([stats EXCEPT ![classifications[i].type] = @ + 1],
                  classifications, i + 1)

getClassificationStats(classifications) ==
  CountTypes([t \in FailureTypes |-> 0], classifications, 1)

\* ------------------------------------------------------------------ system
\* new TxGuardClient(config): the constructor registers its three forwarders
NewClient ==
  /\ ledger = InitLedger
  /\ isPolling = FALSE
  /\ pollingTimer = FALSE
  /\ timers = 0
  /\ polls = EmptyBag
  /\ lastStats = Undefined
  /\ errorCount = 0
  /\ lastError = Undefined
  /\ listeners = [k \in Kinds |-> <<Fwd>>]
  /\ clientListeners = NoListeners
  /\ tierThresholds = 1
  /\ maps = <<initializeTierThresholds>>
  /\ analysis = Undefined
  /\ last = [op |-> "new"]

\* the application has no error log to classify
Init == NewClient /\ args = NoArgs

\* the ledger records transactions of the given outcomes
Ledger(maxTx, outcomes) ==
  \/ \E o \in outcomes : RegisterTxOutcome(o[1], o[2], o[3], maxTx)
  \/ Reinitialize

\* starting and stopping the interval, at most maxInFlight polls outstanding
Interval(maxInFlight) ==
  \/ StartPolling(maxInFlight)
  \/ StopPolling
  \/ Tick(maxInFlight)

\* polls on demand and the settling of the polls in flight
Polls(maxInFlight) ==
  \/ ForcePoll(maxInFlight)
  \/ \E p \in DOMAIN polls : \E lr \in p.seen, lc \in p.seen, lp \in p.seen :
       PollResolves(p, lr, lc, lp)
  \/ \E p \in DOMAIN polls, part \in FetchNames : PollRejects(p, part)

\* overlapping polls over a ledger of successful transactions
Next ==
  \/ Ledger(MaxTx, {<<TRUE, 0, 2>>})
  \/ Interval(MaxInFlight)
  \/ Destroy
  \/ Polls(MaxInFlight)

Spec == Init /\ [][Next]_vars

\* a poll of the given kind settles
Settling(kind) ==
  \E p \in DOMAIN polls :
    /\ p.kind = kind
    /\ \/ \E lr \in p.seen, lc \in p.seen, lp \in p.seen :
            PollResolves(p, lr, lc, lp)
       \/ \E part \in FetchNames : PollRejects(p, part)

\* the interval started and stopped over a changing ledger, ticks overlapping
NextLive ==
  \/ Ledger(MaxTx, {<<TRUE, 0, 2>>})
  \/ Interval(MaxInFlight)
  \/ Settling("initial")
  \/ Settling("interval")

\* every fetch is answered or times out, and a live interval timer keeps firing
SpecLive ==
  /\ Init /\ [][NextLive]_vars
  /\ WF_vars(Settling("initial"))
  /\ WF_vars(Settling("interval"))
  /\ SF_vars(Tick(MaxInFlight))

\* forcePoll() awaited before it is called again, the ledger recording mixed
\* outcomes between two polls
NextSeq ==
  \/ polls = EmptyBag /\ Ledger(MaxSeqTx, Outcomes)
  \/ Polls(1)

SpecSeq == Init /\ [][NextSeq]_vars

\* on*() and remove*Listener() of the facade and of the listener
Subscribing(maxListeners) ==
  \/ \E kind \in Kinds, l \in Subscribers : ClientOn(kind, l, maxListeners)
  \/ \E kind \in Kinds, l \in Subscribers : ListenerOn(kind, l, maxListeners)
  \/ \E kind \in Kinds, l \in Subscribers : ClientRemove(kind, l)
  \/ \E kind \in Kinds, l \in Subscribers : ListenerRemove(kind, l)

\* subscribers come and go while every poll settles before the next begins,
\* over a ledger at rest
NextNotify ==
  \/ Interval(1)
  \/ Polls(1)
  \/ Subscribing(MaxListeners)

SpecNotify == Init /\ [][NextNotify]_vars

\* polls overlapping over a ledger that only grows, failures included
NextGrowing ==
  \/ \E o \in {<<TRUE, 0, 2>>, <<FALSE, 0, 1>>} :
       RegisterTxOutcome(o[1], o[2], o[3], MaxTx)
  \/ Interval(MaxInFlight)
  \/ Polls(MaxInFlight)

SpecGrowing == Init /\ [][NextGrowing]_vars

\* callbacks that change the list they are notified from, registered on the
\* listener, every poll settling before the next begins
NextReentrant ==
  \/ polls = EmptyBag /\ Ledger(MaxTx, {<<TRUE, 0, 2>>})
  \/ Polls(1)
  \/ \E kind \in Kinds, l \in Subscribers \cup SelfRemoving \cup Adding :
       ListenerOn(kind, l, MaxListeners)

SpecReentrant == Init /\ [][NextReentrant]_vars

\* ----------------------------------------------- classifying error logs
Phrases == {ERROR_PATTERNS[i].pattern : i \in 1..Len(ERROR_PATTERNS)}

\* String.prototype.toUpperCase on ASCII text
RECURSIVE toUpperCase(_)
toUpperCase(s) ==
  IF s = "" THEN ""
  ELSE LET c == CharAt(s, 1)
           upper == IF \E k \in 1..Len(LowerCase) : CharAt(LowerCase, k) = c
                    THEN CharAt(UpperCase,
                                CHOOSE k \in 1..Len(LowerCase) : CharAt(LowerCase, k) = c)
                    ELSE c
       IN upper \o toUpperCase(SubSeq(s, 2, Len(s)))

\* the letter casings an error log arrives in
Casings == {"lower", "UPPER", "Capital"}
Cased(s, casing) ==
  CASE casing = "lower" -> s
    [] casing = "UPPER" -> toUpperCase(s)
    [] casing = "Capital" -> toUpperCase(CharAt(s, 1)) \o SubSeq(s, 2, Len(s))

\* the text of the log around the phrase
Prefixes == {"", "Error: "}
Suffixes == {"", " (0x1)"}

\* texts no rule phrase occurs in, and values that are not texts
OtherTexts ==
  {"", "boom", "Price moved", "pool drained", "Sandwich", "too old",
   "low balance", "Transaction simulation failed",
   "some slippage error occurred", "pool price", "sandwich in pool",
   "expired balance", "frontrun, no funds"}
NonStrings == {Null, UndefinedValue, Num(0), Num(42), Bool(FALSE), Bool(TRUE), Object}
BatchLogs ==
  {Null, Str("Slippage Exceeded"), Str("pool drained"), Str("boom"),
   Str("Error: account not found")}

\* the error logs the application holds: a log built around the phrase of
\* rule row (0: none), exact when the log is the phrase alone; or a batch
ClassifyArgs ==
  {[fn |-> "classify",
    errorLog |-> Str(prefix \o Cased(ERROR_PATTERNS[row].pattern, casing) \o suffix),
    row |-> row, exact |-> (prefix = "" /\ suffix = "")] :
     row \in 1..Len(ERROR_PATTERNS), casing \in Casings,
     prefix \in Prefixes, suffix \in Suffixes}
  \cup {[fn |-> "classify", errorLog |-> v, row |-> 0, exact |-> FALSE] :
          v \in {Str(t) : t \in OtherTexts} \cup NonStrings}

\* sequences of at most n values of S
RECURSIVE SeqsUpTo(_, _)
SeqsUpTo(S, n) ==
  IF n = 0 THEN {<<>>}
  ELSE LET shorter == SeqsUpTo(S, n - 1)
       IN shorter \cup {Append(q, x) : q \in shorter, x \in S}

ClassifyBatchArgs ==
  {[fn |-> "classifyBatch", errorLogs |-> logs] :
     logs \in SeqsUpTo(BatchLogs, MaxBatch)}

\* FailureClassifier.classify(errorLog)
Classify ==
  /\ args.fn = "classify"
  /\ last' = [op |-> "classify", input |-> args.errorLog,
              result |-> classify(args.errorLog),
              row |-> args.row, exact |-> args.exact]
  /\ args' = NoArgs
  /\ UNCHANGED analyzerVars
  /\ UNCHANGED <<ledger, pollerVars, listenerVars>>

\* FailureClassifier.classifyBatch(errorLogs)
ClassifyBatch ==
  /\ args.fn = "classifyBatch"
  /\ last' = [op |-> "classifyBatch", input |-> args.errorLogs,
              result |-> classifyBatch(args.errorLogs)]
  /\ args' = NoArgs
  /\ UNCHANGED analyzerVars
  /\ UNCHANGED <<ledger, pollerVars, listenerVars>>

\* FailureClassifier.getClassificationStats(classifications) on a batch result
GetClassificationStats ==
  /\ last.op = "classifyBatch"
  /\ last' = [op |-> "getClassificationStats", input |-> last.result,
              result |-> getClassificationStats(last.result)]
  /\ UNCHANGED utilityVars
  /\ UNCHANGED <<ledger, pollerVars, listenerVars>>

NextClassify ==
  \/ Classify
  \/ ClassifyBatch
  \/ GetClassificationStats

\* a new client and an application holding error logs of any kind
InitClassify == NewClient /\ args \in ClassifyArgs \cup ClassifyBatchArgs

SpecClassify == InitClassify /\ [][NextClassify]_vars

\* --------------------------------------------------- analysing snapshots
\* success rates in half percents, 0 to 100
RateNums == 0..200
TxCounts == {0, 9, 10, 11, 40}

\* statistics with the success rate and the transaction count given
StatsOf(txCount, rate) ==
  [registry |-> [txCount |-> txCount, successCount |-> 0, failureCount |-> 0],
   failures |-> ZeroCatalog, priorityFees |-> [tiers |-> ZeroTiers],
   successRate |-> rate]

\* tier counts of a snapshot: none, one tier, several tiers
TierCounts ==
  {ZeroTiers, [ZeroTiers EXCEPT ![4] = 1], [ZeroTiers EXCEPT ![0] = 1, ![3] = 2],
   [t \in Tiers |-> 1]}

\* snapshots as a poll builds them, the three accounts read at instants of
\* their own
Snapshots ==
  {[registry |-> [txCount |-> n, successCount |-> k, failureCount |-> n - k],
    failures |-> ZeroCatalog, priorityFees |-> [tiers |-> c],
    successRate |-> calculateSuccessRate([txCount |-> n, successCount |-> k,
                                          failureCount |-> n - k])] :
     n \in 0..MaxAnalyzedTx, k \in 0..MaxAnalyzedTx, c \in TierCounts}

AnalyzeArgs ==
  {[fn |-> "suggestTierForNetworkConditions", stats |-> StatsOf(n, [num |-> r, den |-> 2])] :
     n \in TxCounts, r \in RateNums}
  \cup {[fn |-> "analyzeFromStats", stats |-> st] :
          st \in {x \in Snapshots : x.registry.successCount <= x.registry.txCount}}

\* PriorityFeeAnalyzer.suggestTierForNetworkConditions(recentStats)
SuggestTierForNetworkConditions ==
  /\ args.fn = "suggestTierForNetworkConditions"
  /\ last' = [op |-> "suggestTierForNetworkConditions", input |-> args.stats,
              result |-> suggestTierForNetworkConditions(args.stats)]
  /\ args' = NoArgs
  /\ UNCHANGED analyzerVars
  /\ UNCHANGED <<ledger, pollerVars, listenerVars>>

\* PriorityFeeAnalyzer.analyzeFromStats(stats)
AnalyzeFromStats ==
  /\ args.fn = "analyzeFromStats"
  /\ last' = [op |-> "analyzeFromStats", input |-> args.stats,
              result |-> analyzeFromStats(args.stats)]
  /\ analysis' = Some(analyzeFromStats(args.stats))
  /\ args' = NoArgs
  /\ UNCHANGED <<tierThresholds, maps>>
  /\ UNCHANGED <<ledger, pollerVars, listenerVars>>

NextAnalyze ==
  \/ SuggestTierForNetworkConditions
  \/ AnalyzeFromStats

\* a new client and an application holding statistics to analyse
InitAnalyze == NewClient /\ args \in AnalyzeArgs

SpecAnalyze == InitAnalyze /\ [][NextAnalyze]_vars

\* ------------------------------------------------------ tier thresholds
\* the Maps the application builds: the one of the test, a small one with a
\* fee at tier 0, one that lacks tiers, one that is not increasing
ThresholdMaps ==
  {<<0, 2000, 8000, 15000, 60000>>, <<1, 2, 3, 4, 5>>, <<9000, 500, 500, 20, 0>>}

NewMaps ==
  {[t \in Tiers |-> m[t + 1]] : m \in ThresholdMaps} \cup {(1 :> 500) @@ (3 :> 500)}

SetTiers == {1, 4}
SetValues == {7000}
Fees == {0, 500, 1000, 60000}
ThresholdStats == {x \in Snapshots : x.registry.txCount = 1 /\ x.registry.successCount = 1
                                     /\ x.priorityFees.tiers[3] = 2}

\* the Maps the application holds: every object but the one the constructor
\* made
AppMaps == 2..Len(maps)

\* new Map([...]) in the application
NewMap ==
  /\ Len(maps) < MaxMaps
  /\ \E m \in NewMaps : maps' = Append(maps, m)
  /\ last' = [op |-> "newMap", ref |-> Len(maps) + 1]
  /\ UNCHANGED <<tierThresholds, analysis, args>>
  /\ UNCHANGED <<ledger, pollerVars, listenerVars>>

\* the application lets go of the Map it made last
DropMap ==
  /\ Len(maps) > 1
  /\ tierThresholds # Len(maps)
  /\ maps' = SubSeq(maps, 1, Len(maps) - 1)
  /\ last' = [op |-> "dropMap", ref |-> Len(maps)]
  /\ UNCHANGED <<tierThresholds, analysis, args>>
  /\ UNCHANGED <<ledger, pollerVars, listenerVars>>

\* map.set(tier, value) in the application
MapSet ==
  /\ \E ref \in AppMaps, tier \in SetTiers, value \in SetValues :
       /\ maps' = [maps EXCEPT ![ref] = (tier :> value) @@ maps[ref]]
       /\ last' = [op |-> "mapSet", ref |-> ref]
  /\ UNCHANGED <<tierThresholds, analysis, args>>
  /\ UNCHANGED <<ledger, pollerVars, listenerVars>>

\* PriorityFeeAnalyzer.updateTierThresholds(newThresholds)
UpdateTierThresholds ==
  /\ \E newThresholds \in AppMaps :
       /\ updateTierThresholds(newThresholds)
       /\ last' = [op |-> "updateTierThresholds", ref |-> newThresholds]
  /\ UNCHANGED <<analysis, args>>
  /\ UNCHANGED <<ledger, pollerVars, listenerVars>>

\* PriorityFeeAnalyzer.getTierThresholds()
GetTierThresholds ==
  /\ Len(maps) < MaxMaps
  /\ maps' = Append(maps, getTierThresholds)
  /\ last' = [op |-> "getTierThresholds", ref |-> Len(maps) + 1]
  /\ UNCHANGED <<tierThresholds, analysis, args>>
  /\ UNCHANGED <<ledger, pollerVars, listenerVars>>

\* PriorityFeeAnalyzer.getRecommendedFeeForTier(tier)
GetRecommendedFeeForTier ==
  /\ \E tier \in Tiers :
       last' = [op |-> "getRecommendedFeeForTier", input |-> tier,
                result |-> getRecommendedFeeForTier(tier)]
  /\ UNCHANGED utilityVars
  /\ UNCHANGED <<ledger, pollerVars, listenerVars>>

\* PriorityFeeAnalyzer.getTierForFee(fee), the fee a given one or the one
\* just recommended
GetTierForFee ==
  /\ \E fee \in Fees \cup (IF last.op = "getRecommendedFeeForTier"
                           THEN {last.result} ELSE {}) :
       last' = [op |-> "getTierForFee", input |-> fee,
                result |-> getTierForFee(fee)]
  /\ UNCHANGED utilityVars
  /\ UNCHANGED <<ledger, pollerVars, listenerVars>>

\* analyzeFromStats(stats), the application keeping the analysis returned
Analyze ==
  /\ \E stats \in ThresholdStats :
       /\ analysis' = Some(analyzeFromStats(stats))
       /\ last' = [op |-> "analyzeFromStats", input |-> stats,
                   result |-> analyzeFromStats(stats)]
  /\ UNCHANGED <<tierThresholds, maps, args>>
  /\ UNCHANGED <<ledger, pollerVars, listenerVars>>

NextThresholds ==
  \/ NewMap
  \/ DropMap
  \/ MapSet
  \/ UpdateTierThresholds
  \/ GetTierThresholds
  \/ GetRecommendedFeeForTier
  \/ GetTierForFee
  \/ Analyze

SpecThresholds == Init /\ [][NextThresholds]_vars

\* ================================================================== claims
Settled == last.op = "poll"
Resolved == Settled /\ IsDefined(last.fetched)
Rejected == Settled /\ ~IsDefined(last.fetched)
NoStatsUpdate == last.run.stats = NoCalls
NoTxRecorded == last.run.events = <<>> /\ last.run.tx = NoCalls

\* the facade's callbacks a notification of the given kind reaches
ClientReached(kind) ==
  IF \E i \in 1..Len(listeners[kind]) : listeners[kind][i] = Fwd
  THEN clientListeners[kind] ELSE <<>>

\* C1: a poll that adopts cur after prev, cur.txCount >= prev.txCount, emits
\* cur.txCount - prev.txCount transaction-recorded events, of which
\* cur.successCount - prev.successCount are successes
C1_DeltaEvents ==
  (/\ Resolved
   /\ IsDefined(last.prev)
   /\ lastStats = last.fetched
   /\ lastStats # last.prev
   /\ Val(lastStats).registry.txCount >= Val(last.prev).registry.txCount)
  => LET cur == Val(lastStats).registry
         prev == Val(last.prev).registry
         events == last.run.events
     IN /\ Len(events) = cur.txCount - prev.txCount
        /\ Cardinality({k \in 1..Len(events) : events[k].success})
             = cur.successCount - prev.successCount

\* C2: the second of two forcePoll() calls between which the ledger did not
\* change emits no stats-update and no transaction-recorded notification and
\* leaves the retained snapshot as it was
C2_SecondForcePollSilent ==
  (Settled /\ last.kind = "force" /\ last.after # "none" /\ last.quiet)
  => NoStatsUpdate /\ NoTxRecorded /\ lastStats = last.prev

\* C2 as amended: the same, the fetch of the first call having succeeded
C2_SecondForcePollSilentAfterSuccess ==
  (Settled /\ last.kind = "force" /\ last.after = "resolved" /\ last.quiet)
  => NoStatsUpdate /\ NoTxRecorded /\ lastStats = last.prev

C2_Witness ==
  /\ Resolved /\ last.kind = "force" /\ last.after = "resolved" /\ last.quiet
  /\ Val(lastStats).registry.txCount > 0

\* C3: no interval tick begins while the listener is stopped
C3_NoTickAfterStop == last.op = "tick" => isPolling

\* C4: a tick that was in flight when stopPolling() ran adopts nothing and
\* notifies neither stats-update nor transaction-recorded subscribers
C4_StoppedTickDiscarded ==
  (Settled /\ last.stopped /\ last.kind \in {"initial", "interval"})
  => NoStatsUpdate /\ NoTxRecorded /\ lastStats = last.prev

\* C5: startPolling() called while the listener is polling changes nothing: no
\* poll, no timer, no field of the listener, and it returns after the warning
C5_StartWhilePollingNoOp ==
  [][(isPolling /\ last'.op = "startPolling")
       => (last'.warned
           /\ UNCHANGED <<ledger, pollerVars, listenerVars, utilityVars>>)]_vars

C5_Witness == last.op = "startPolling" /\ last.warned /\ polls # EmptyBag

\* C6: a tick one of whose fetches fails leaves the retained snapshot as it was
\* and notifies neither stats-update nor transaction-recorded subscribers
C6_FailedTickAdoptsNothing ==
  Rejected => NoStatsUpdate /\ NoTxRecorded /\ lastStats = last.prev

C6_Witness == Rejected /\ IsDefined(last.prev) /\ Val(last.prev) # NewStats(ledger, ledger, ledger)

\* C7: a step is a tick whose fetch fails exactly when it adds one to
\* errorCount; that tick sets lastError to its error and invokes every error
\* subscriber once; no other step changes errorCount
C7_ErrorCountCountsFailedTicks ==
  [][IF last'.op = "poll" /\ ~IsDefined(last'.fetched)
     THEN /\ errorCount' = errorCount + 1
          /\ IsDefined(lastError') /\ Val(lastError') \in FetchNames
          /\ last'.run.error.invoked = listeners.errorListeners
          /\ last'.run.error.client = ClientReached("errorListeners")
     ELSE errorCount' = errorCount]_vars

\* a second failed tick of the interval, a throwing error subscriber ahead of
\* another one
C7_Witness ==
  /\ Rejected /\ last.kind = "interval" /\ errorCount > 1
  /\ \E i \in 1..Len(listeners.errorListeners) :
        listeners.errorListeners[i] \in Throwing
          /\ i < Len(listeners.errorListeners)

\* C8: after a tick whose fetch failed while the listener is polling, an
\* interval tick begins again unless polling is stopped, that tick issues its
\* fetches, and a poll that resolves after failures to counters other than the
\* retained ones is adopted and notified
C8_FailedTickDoesNotStopPolling ==
  /\ [](  (Rejected /\ last.kind \in {"initial", "interval"} /\ isPolling)
        => <>(last.op = "tick" \/ ~isPolling))
  /\ [](last.op = "tick" => \E p \in DOMAIN polls : p.kind = "interval")
  /\ [](  (Resolved /\ last.errorsBefore > 0 /\ last.fetched # last.prev)
        => /\ lastStats = last.fetched
           /\ last.run.stats.invoked = listeners.statsUpdateListeners)

C8_Witness ==
  /\ last.op = "tick" /\ isPolling /\ errorCount > 0
  /\ IsDefined(lastStats)
  /\ Val(lastStats) # NewStats(ledger, ledger, ledger)

\* two events for the loop of detectNewTransactions
SampleEvents ==
  <<[signature |-> 0, success |-> TRUE, failureType |-> 0, priorityFeeTier |-> 2],
    [signature |-> 1, success |-> FALSE, failureType |-> 5, priorityFeeTier |-> 2]>>

\* C9: whatever callbacks throw, a notification reaches every subscriber of its
\* list, in order, on the listener and on the facade; the tick keeps the
\* snapshot it adopted and counts no error; the loop of detectNewTransactions
\* emits every event to every subscriber; and nothing is thrown to the caller
\* of forcePoll() or startPolling()
C9_ThrowingSubscriberIsolated ==
  /\ Settled =>
       /\ ~last.rejected
       /\ ~last.run.escaped
       /\ (Resolved /\ last.fetched # last.prev) =>
            /\ lastStats = last.fetched
            /\ errorCount = last.errorsBefore
            /\ last.run.stats.invoked = listeners.statsUpdateListeners
            /\ last.run.stats.client = ClientReached("statsUpdateListeners")
       /\ Rejected =>
            /\ errorCount = last.errorsBefore + 1
            /\ last.run.error.invoked = listeners.errorListeners
            /\ last.run.error.client = ClientReached("errorListeners")
  /\ LET r == EmitTxEvents(Run0, SampleEvents, 1)
         once == listeners.txRecordedListeners
         reached == ClientReached("txRecordedListeners")
     IN /\ ~r.escaped
        /\ r.events = SampleEvents
        /\ r.tx.invoked = once \o once
        /\ r.tx.client = reached \o reached

\* a throwing callback is followed by another one in the list notified
ThrowerFirst(list) ==
  \E i \in 1..Len(list) : list[i] \in Throwing /\ i < Len(list)

C9_Witness ==
  /\ Resolved /\ last.fetched # last.prev
  /\ last.kind \in {"force", "initial"}
  /\ ThrowerFirst(listeners.statsUpdateListeners)
  /\ last.run.stats.invoked = listeners.statsUpdateListeners

\* C10: a poll that finds a txCount below the retained one adopts the new
\* snapshot, notifies every stats-update subscriber and emits no
\* transaction-recorded event
C10_DecreaseAdoptedWithoutEvents ==
  (/\ Resolved
   /\ IsDefined(last.prev)
   /\ Val(last.fetched).registry.txCount < Val(last.prev).registry.txCount)
  => /\ lastStats = last.fetched
     /\ last.run.stats.invoked = listeners.statsUpdateListeners
     /\ last.run.stats.client = ClientReached("statsUpdateListeners")
     /\ NoTxRecorded

C10_Witness ==
  /\ Resolved
  /\ IsDefined(last.prev)
  /\ Val(last.fetched).registry.txCount < Val(last.prev).registry.txCount
  /\ last.run.stats.invoked = <<Fwd>>

\* C11: a poll that finds a txCount below the retained one notifies the error
\* subscribers (of a discontinuity) in that tick
C11_DecreaseReportedToErrorSubscribers ==
  (/\ Resolved
   /\ IsDefined(last.prev)
   /\ Val(last.fetched).registry.txCount < Val(last.prev).registry.txCount
   /\ listeners.errorListeners # <<>>)
  => last.run.error.invoked = listeners.errorListeners

\* C12: getCurrentStats() is undefined on a new listener and stays undefined
\* until a poll's fetch succeeds; it changes only when a poll adopts what it
\* fetched, to exactly that snapshot; the first successful poll always adopts,
\* an all-zero snapshot included; once defined it never becomes undefined
\* again; the facade's getStats() returns the same
C12_UndefinedUntilFirstAdoption ==
  /\ [](last.op = "new" => ~IsDefined(getCurrentStats))
  /\ [](getStats = getCurrentStats)
  /\ [][/\ getCurrentStats' # getCurrentStats
            => /\ last'.op = "poll" /\ IsDefined(last'.fetched)
               /\ getCurrentStats' = last'.fetched
        /\ (last'.op = "poll" /\ IsDefined(last'.fetched)
              /\ ~IsDefined(getCurrentStats))
            => getCurrentStats' = last'.fetched
        /\ IsDefined(getCurrentStats) => IsDefined(getCurrentStats')]_vars

\* after a failed poll there is still no snapshot, and the poll that follows
\* adopts the snapshot of a ledger of zeros
C12_Witness ==
  /\ Resolved /\ ~IsDefined(last.prev) /\ last.errorsBefore > 0
  /\ getCurrentStats = Some(NewStats(InitLedger, InitLedger, InitLedger))

\* C13: classify on an absent or non-string input returns type Other with
\* confidence 0 and the input as given
C13_AbsentInputAsGiven ==
  (last.op = "classify" /\ (KindOf(last.input) # "string" \/ TextOf(last.input) = ""))
  => /\ last.result.type = OtherFailure
     /\ last.result.confidence = 0
     /\ last.result.originalError = last.input

\* C13 as amended: type Other with confidence 0; the input as given when it
\* is truthy, the text 'Empty error' when it is null, undefined, the empty
\* string or another falsy value
C13_AbsentInputOrPlaceholder ==
  (last.op = "classify" /\ (KindOf(last.input) # "string" \/ TextOf(last.input) = ""))
  => /\ last.result.type = OtherFailure
     /\ last.result.confidence = 0
     /\ last.result.originalError =
          IF last.input \in {Num(42), Bool(TRUE), Object} THEN last.input
          ELSE Str("Empty error")

C13_Witness ==
  /\ last.op = "classify" /\ last.input = Null
  /\ last.result.originalError = Str("Empty error")

\* C14: classifying a text equal to a phrase of the rule table yields
\* confidence 1.0
C14_ExactPhraseFullConfidence ==
  (last.op = "classify" /\ KindOf(last.input) = "string"
     /\ TextOf(last.input) \in Phrases)
  => last.result.confidence = 10

\* C15: classifying a rule phrase, in any letter casing, yields the category
\* of its rule with a confidence above 0
C15_PhraseClassifiedByItsRule ==
  (last.op = "classify" /\ last.row > 0 /\ last.exact)
  => /\ last.result.type = ERROR_PATTERNS[last.row].type
     /\ last.result.confidence > 0
     /\ last.result.originalError = last.input

\* a phrase in capitals that an earlier rule of the same category matches
C15_Witness ==
  /\ last.op = "classify" /\ last.input = Str("CUSTOM PROGRAM ERROR")
  /\ last.result.type = OtherFailure /\ last.result.confidence = 8

RECURSIVE SumStats(_, _)
SumStats(stats, t) ==
  IF t >= NumFailureTypes THEN 0 ELSE stats[t] + SumStats(stats, t + 1)

\* C19: classifyBatch returns as many classifications as it was given logs,
\* the i-th being classify of the i-th log; getClassificationStats returns a
\* count for each of the six categories, the number of classifications of
\* that category, and the six counts add up to their number
C19_BatchElementWiseStatsTotal ==
  /\ last.op = "classifyBatch" =>
       /\ Len(last.result) = Len(last.input)
       /\ \A i \in 1..Len(last.input) : last.result[i] = classify(last.input[i])
  /\ last.op = "getClassificationStats" =>
       /\ DOMAIN last.result = FailureTypes
       /\ \A t \in FailureTypes :
            last.result[t]
              = Cardinality({i \in 1..Len(last.input) : last.input[i].type = t})
       /\ SumStats(last.result, 0) = Len(last.input)

C19_Witness ==
  /\ last.op = "getClassificationStats"
  /\ Len(last.input) = 2
  /\ last.result[SLIPPAGE_EXCEEDED] = 1 /\ last.result[DROPPED_TX] = 1
  /\ last.result[MEV_DETECTED] = 0

\* C16: suggestTierForNetworkConditions returns 2 below 10 transactions; from
\* 10 on it returns 4 under 50 percent, 3 under 70, 2 under 85, 1 under 95
\* and 0 otherwise, and never a higher tier for a higher success rate
C16_SuggestedTierStepFunction ==
  last.op = "suggestTierForNetworkConditions" =>
    LET r == last.input.successRate
        n == last.input.registry.txCount
    IN /\ n < 10 => last.result = 2
       /\ n >= 10 =>
            /\ last.result = (IF r.num < 50 * r.den THEN 4
                              ELSE IF r.num < 70 * r.den THEN 3
                              ELSE IF r.num < 85 * r.den THEN 2
                              ELSE IF r.num < 95 * r.den THEN 1
                              ELSE 0)
            /\ \A higher \in RateNums :
                 higher >= r.num =>
                   suggestTierForNetworkConditions(
                     StatsOf(n, [num |-> higher, den |-> r.den])) <= last.result

\* exactly 85 percent over 10 transactions
C16_Witness ==
  /\ last.op = "suggestTierForNetworkConditions"
  /\ last.input.registry.txCount = 10
  /\ last.input.successRate = [num |-> 170, den |-> 2]
  /\ last.result = 1

\* C18: analyzeFromStats on a snapshot with txCount 0 returns the average
\* fee 0, a number, and recommends the default tier
C18_ZeroTransactionsZeroAverage ==
  (last.op = "analyzeFromStats" /\ last.input.registry.txCount = 0)
  => /\ last.result.averageFee.num = 0
     /\ last.result.averageFee.den > 0
     /\ last.result.recommendedTier = DefaultTier

\* a snapshot of no transaction whose tier counts already show one
C18_Witness ==
  /\ last.op = "analyzeFromStats"
  /\ last.input.registry.txCount = 0
  /\ last.input.priorityFees.tiers[4] = 1
  /\ last.result.averageFee = [num |-> 0, den |-> 1]

\* every tier has a threshold, none negative, each above the one before
Increasing(entries) ==
  /\ DOMAIN entries = Tiers
  /\ \A t \in Tiers : entries[t] >= 0
  /\ \A t \in Tiers \ {0} : entries[t] > entries[t - 1]

\* C17: with thresholds for all five tiers that are non-negative and
\* increasing, the defaults included, getTierForFee(getRecommendedFeeForTier(t))
\* is at least t for every tier t, and the fee recommended is
\* floor(threshold * 1.2) for tiers 1 to 4 and the threshold for tier 0
C17_RecommendedFeeRoundTrip ==
  /\ [](Increasing(Thresholds) =>
          \A t \in Tiers :
            /\ getTierForFee(getRecommendedFeeForTier(t)) >= t
            /\ getRecommendedFeeForTier(t) =
                 (IF t = 0 THEN Thresholds[0] ELSE (Thresholds[t] * 12) \div 10))
  /\ [][(last'.op = "getTierForFee" /\ last.op = "getRecommendedFeeForTier"
         /\ last'.input = last.result /\ Increasing(Thresholds))
        => last'.result >= last.input]_vars

\* the fee recommended for tier 4 after an update, given back to getTierForFee
C17_Witness ==
  /\ last.op = "getTierForFee"
  /\ Increasing(Thresholds)
  /\ Thresholds # initializeTierThresholds
  /\ last.input = getRecommendedFeeForTier(4)
  /\ last.input > Thresholds[4]
  /\ last.result = 4

\* C20: updateTierThresholds changes the analyzer's thresholds to the
\* entries of the Map passed and nothing else; no other step changes them,
\* not even a set on the Map passed in or on a Map that getTierThresholds
\* returned; an analysis returned earlier stays as it was
C20_ThresholdUpdateFrame ==
  /\ [][last'.op = "updateTierThresholds" =>
          /\ Thresholds' = maps[last'.ref]
          /\ getTierThresholds' = maps[last'.ref]
          /\ \A ref \in AppMaps : maps'[ref] = maps[ref]
          /\ Len(maps') = Len(maps)
          /\ analysis' = analysis
          /\ UNCHANGED <<ledger, pollerVars, listenerVars, args>>]_vars
  /\ [][last'.op # "updateTierThresholds" => Thresholds' = Thresholds]_vars
  /\ [][last'.op = "mapSet" => analysis' = analysis]_vars

\* the application changed the Map it had passed to updateTierThresholds,
\* and the analyzer still has the entries of the call
C20_Witness ==
  /\ last.op = "mapSet"
  /\ last.ref \in AppMaps
  /\ Thresholds # initializeTierThresholds
  /\ maps[last.ref] # Thresholds
  /\ \E tier \in SetTiers : maps[last.ref] = (tier :> maps[last.ref][tier]) @@ Thresholds
  /\ IsDefined(analysis)

\* C21: a poll that adopts a snapshot in which two failures were recorded
\* since the previous one, one by slippage and one by liquidity, emits two
\* failure events, the first of type SlippageExceeded and the second of type
\* InsufficientLiquidity: each event takes the first category that increased
\* and that no earlier event of the tick has taken
C21_FailureTypesNotReused ==
  (/\ Resolved
   /\ IsDefined(last.prev)
   /\ lastStats = last.fetched
   /\ Val(last.fetched).registry.txCount = Val(last.prev).registry.txCount + 2
   /\ Val(last.fetched).registry.failureCount
        = Val(last.prev).registry.failureCount + 2
   /\ Val(last.fetched).failures.slippageExceeded
        = Val(last.prev).failures.slippageExceeded + 1
   /\ Val(last.fetched).failures.insufficientLiquidity
        = Val(last.prev).failures.insufficientLiquidity + 1)
  => LET events == last.run.events
     IN /\ Len(events) = 2
        /\ ~events[1].success /\ events[1].failureType = SLIPPAGE_EXCEEDED
        /\ ~events[2].success /\ events[2].failureType = INSUFFICIENT_LIQUIDITY

\* C22: a poll that finds txCount 1, successCount 1 and tiers [0,0,1,0,0]
\* after a snapshot of txCount 0 emits exactly one event, a success of tier 2,
\* and every event emitted carries the lowest tier whose count increased, 2
\* when none did
C22_TierGuessOfEachEvent ==
  /\ (/\ Resolved
      /\ IsDefined(last.prev)
      /\ Val(last.prev).registry.txCount = 0
      /\ Val(last.fetched).registry
           = [txCount |-> 1, successCount |-> 1, failureCount |-> 0]
      /\ Val(last.fetched).priorityFees.tiers = [ZeroTiers EXCEPT ![2] = 1])
     => /\ Len(last.run.events) = 1
        /\ last.run.events[1].success
        /\ last.run.events[1].priorityFeeTier = 2
  /\ (Resolved /\ IsDefined(last.prev))
     => \A k \in 1..Len(last.run.events) :
          last.run.events[k].priorityFeeTier
            = detectPriorityTierFromChanges(Val(last.fetched), Val(last.prev))

\* C23: a poll that resolves while no snapshot is retained adopts what it
\* fetched, invokes every stats-update subscriber once and emits no
\* transaction-recorded event, whatever the counters; startPolling() issues
\* that poll and sets no timer, so that no interval tick fires before a poll
\* has settled
C23_FirstPollAlwaysAdopted ==
  /\ []((Resolved /\ ~IsDefined(last.prev))
          => /\ lastStats = last.fetched
             /\ last.run.stats.invoked = listeners.statsUpdateListeners
             /\ last.run.stats.client = ClientReached("statsUpdateListeners")
             /\ NoTxRecorded)
  /\ [](last.op = "tick" => (IsDefined(lastStats) \/ errorCount > 0))
  /\ [][(last'.op = "startPolling" /\ ~last'.warned)
          => /\ timers' = timers
             /\ polls' = polls (+) SetToBag({NewPoll("initial")})]_vars

\* the initial poll of startPolling() finds a transaction already recorded
C23_Witness ==
  /\ Resolved /\ ~IsDefined(last.prev) /\ last.kind = "initial"
  /\ Val(last.fetched).registry.txCount > 0
  /\ last.run.stats.invoked = <<Fwd>>
  /\ last.run.events = <<>>
  /\ timers > 0

\* C24: a notification invokes every subscriber that is in its list when it
\* starts exactly once, in order, whatever the callbacks do to the list
C24_NotifiedOverStableCopy ==
  [][/\ (last'.op = "poll" /\ IsDefined(last'.fetched)
           /\ last'.fetched # last'.prev)
          => last'.run.stats.invoked = listeners.statsUpdateListeners
     /\ (last'.op = "poll" /\ ~IsDefined(last'.fetched))
          => last'.run.error.invoked = listeners.errorListeners]_vars

\* word occurs in text
Occurs(word, text) ==
  \E k \in 0..(Len(text) - Len(word)) : SubSeq(text, k + 1, k + Len(word)) = word

\* the rule rows whose phrase occurs in the text
MatchingRows(text) ==
  {i \in 1..Len(ERROR_PATTERNS) : Occurs(ERROR_PATTERNS[i].pattern, text)}

\* the lowest number of a set of numbers
Lowest(S) == CHOOSE i \in S : \A j \in S : i <= j

NonEmptyText(input) == KindOf(input) = "string" /\ TextOf(input) # ""

\* C25: when a rule phrase occurs in the input, the confidence is, for the
\* first such phrase of the table: 1.0 if the lower-cased input is the phrase,
\* else 0.9 if it starts with it, else 0.8 if it ends with it, else 0.7 if the
\* phrase contains one of insufficient, slippage, liquidity, funds, dropped,
\* mev, else 0.6; and every confidence is one of 0, 0.1, 0.5, 0.6, ..., 1.0
C25_ConfidenceOfFirstMatchingPhrase ==
  last.op = "classify" =>
    /\ last.result.confidence \in {0, 1, 5, 6, 7, 8, 9, 10}
    /\ NonEmptyText(last.input) =>
         LET text == toLowerCase(TextOf(last.input))
             rows == MatchingRows(text)
             phrase == ERROR_PATTERNS[Lowest(rows)].pattern
             n == Len(text)
             m == Len(phrase)
         IN rows # {} =>
              last.result.confidence =
                (IF text = phrase THEN 10
                 ELSE IF SubSeq(text, 1, m) = phrase THEN 9
                 ELSE IF SubSeq(text, n - m + 1, n) = phrase THEN 8
                 ELSE IF \E word \in {"insufficient", "slippage", "liquidity",
                                      "funds", "dropped", "mev"} :
                           Occurs(word, phrase)
                      THEN 7
                 ELSE 6)

\* a phrase with a key word in the middle of the log
C25_Witness ==
  /\ last.op = "classify"
  /\ last.input = Str("Error: INSUFFICIENT FUNDS (0x1)")
  /\ last.result.confidence = 7
  /\ last.result.type = INSUFFICIENT_FUNDS

\* the keyword checks of the fallback, in their order
C26_Fallbacks ==
  <<[words |-> {"slippage", "price"}, type |-> SLIPPAGE_EXCEEDED],
    [words |-> {"liquidity", "pool"}, type |-> INSUFFICIENT_LIQUIDITY],
    [words |-> {"mev", "sandwich", "frontrun"}, type |-> MEV_DETECTED],
    [words |-> {"not found", "expired", "old"}, type |-> DROPPED_TX],
    [words |-> {"insufficient", "funds", "balance"}, type |-> INSUFFICIENT_FUNDS]>>

C26_Hits(text) ==
  {f \in 1..Len(C26_Fallbacks) :
     \E word \in C26_Fallbacks[f].words : Occurs(word, text)}

C27_Ties ==
  {[t \in Tiers |-> [num |-> IF t \in S THEN 50 ELSE 20, den |-> 1]] :
     S \in (SUBSET Tiers) \ {{}}}

\* C27: analyzeFromStats gives a rate to each of the five tiers, 0 to a tier
\* with no usage and successRate * multiplier (0.70, 0.80, 0.90, 0.95, 0.98) to
\* a tier with usage, and recommends a tier of 0..4: tier 2 when all rates are
\* 0, otherwise the tier of the highest rate, the lowest such tier on ties
C27_EffectivenessAndArgmax ==
  /\ last.op = "analyzeFromStats" =>
       LET stats == last.input
           rate == stats.successRate
           eff == last.result.tierEffectiveness
           best == last.result.recommendedTier
           multiplier == <<70, 80, 90, 95, 98>>
       IN /\ DOMAIN eff = 0..4
          /\ best \in 0..4
          /\ \A t \in 0..4 :
               /\ eff[t].den > 0
               /\ IF stats.priorityFees.tiers[t] = 0 THEN eff[t].num = 0
                  ELSE eff[t].num * rate.den * 100
                         = rate.num * multiplier[t + 1] * eff[t].den
          /\ IF \A t \in 0..4 : eff[t].num = 0 THEN best = 2
             ELSE /\ \A t \in 0..4 :
                       eff[t].num * eff[best].den <= eff[best].num * eff[t].den
                  /\ \A t \in 0..(best - 1) :
                       eff[t].num * eff[best].den < eff[best].num * eff[t].den
  /\ \A e \in C27_Ties :
       /\ e[findOptimalTier(e)].num = 50
       /\ \A t \in 0..(findOptimalTier(e) - 1) : e[t].num = 20

\* tiers 0 and 3 were used: tier 3 has the higher rate
C27_Witness ==
  /\ last.op = "analyzeFromStats"
  /\ last.input.registry = [txCount |-> 3, successCount |-> 2, failureCount |-> 1]
  /\ last.input.priorityFees.tiers = [ZeroTiers EXCEPT ![0] = 1, ![3] = 2]
  /\ last.result.recommendedTier = 3
  /\ last.result.tierEffectiveness[1].num = 0
  /\ last.result.tierEffectiveness[0].num > 0

\* C28: over a ledger whose counters never decrease, the txCount of the
\* retained snapshot never decreases, however ticks and forcePoll() calls
\* overlap
C28_RetainedTxCountNeverDecreases ==
  [][(IsDefined(lastStats) /\ IsDefined(lastStats'))
       => Val(lastStats').registry.txCount >= Val(lastStats).registry.txCount]_vars

\* C29: at most one interval timer is alive, none while isPolling is false,
\* and stopPolling() on a stopped listener changes nothing
C29_AtMostOneTimerNoneWhenStopped ==
  /\ [](timers <= 1)
  /\ [](~isPolling => timers = 0)
  /\ [][(~isPolling /\ last'.op = "stopPolling")
          => UNCHANGED <<ledger, pollerVars, listenerVars, utilityVars>>]_vars

\* the catalog's six counts added up
SumOfFailures(failures) ==
  failures.slippageExceeded + failures.insufficientLiquidity + failures.mevDetected
    + failures.droppedTx + failures.insufficientFunds + failures.other

\* C30: the retained snapshot has the sum of its failure counts equal to its
\* failureCount and its txCount equal to successCount + failureCount, the
\* ledger having both at every instant
C30_RetainedSnapshotConsistent ==
  /\ SumOfFailures(ledger.failures) = ledger.registry.failureCount
  /\ ledger.registry.txCount
       = ledger.registry.successCount + ledger.registry.failureCount
  /\ IsDefined(lastStats) =>
       /\ SumOfFailures(Val(lastStats).failures)
            = Val(lastStats).registry.failureCount
       /\ Val(lastStats).registry.txCount
            = Val(lastStats).registry.successCount
                + Val(lastStats).registry.failureCount

====
